---- MODULE Spec2Model ----
(***************************************************************************)
(* A model of the beethovision FiftyOne utilities:                         *)
(*   import_dataset.py  create_dataset / add_session_field /               *)
(*                      add_keyboard_bboxes   (specification SpecImport)   *)
(*   run_mediapipe.py   run_mp                (specification Spec)         *)
(*   custom_export.py   export                (specification Spec)         *)
(* Strings are sequences of one-character strings, so that the regular     *)
(* expressions and int() of the source are computed, not assumed.          *)
(* Floating-point quotients are modelled by exact rationals.               *)
(***************************************************************************)
EXTENDS Integers, Sequences, FiniteSets, TLC

VARIABLES
    \* ---- import_dataset.py ----
    files,          \* glob.glob(...) result: sequence of video files, any order
    dataset,        \* the FiftyOne dataset: sequence of samples (persisted)
    keyboard_preds, \* json.load(f) of the bounding-box file
    ipc,            \* position in import_dataset.main
    idx,            \* add_keyboard_bboxes: number of samples already iterated
    ierr,           \* exception that ended the import, or "none"
    \* ---- run_mediapipe.py / custom_export.py ----
    nframes,        \* per sample: number of frame records (sample.frames)
    mem,            \* in-memory frame documents of the current sample
    db,             \* per sample: frame documents as persisted by sample.save()
    pc,             \* position in run_mp / export
    cur,            \* index of the sample of the current loop iteration
    fno,            \* frame number the frame loop is at
    cap,            \* the VideoCapture bound to the local `cap`: [fps, decodable]
    capOpen,        \* samples whose VideoCapture handle is still open
    lmOpen,         \* samples whose HandLandmarker is still open
    calls,          \* detect_hands calls on the current video, in order
    outcome,        \* per sample: how run_mp left the video
    docs,           \* per sample: exported JSON document, or NoDoc
    xerr            \* exception that ended run_mp / export, or "none"

ivars == <<files, dataset, keyboard_preds, ipc, idx, ierr>>
mvars == <<nframes, mem, db, pc, cur, fno, cap, capOpen, lmOpen,
           calls, outcome, docs, xerr>>
vars == <<files, dataset, keyboard_preds, ipc, idx, ierr,
          nframes, mem, db, pc, cur, fno, cap, capOpen, lmOpen,
          calls, outcome, docs, xerr>>

----------------------------------------------------------------------------
\* Bounds of the model.
MaxFiles == 3       \* at most this many files match the glob
MaxEntries == 3     \* at most this many entries in the bounding-box file
NumSamples == 2     \* samples in the dataset run_mp iterates
MaxFrames == 3      \* frame records per sample

----------------------------------------------------------------------------
\* Strings and numbers.

DigitChars == <<"0", "1", "2", "3", "4", "5", "6", "7", "8", "9">>

IsDigit(c) == \E i \in 1..10 : DigitChars[i] = c

DigitVal(c) == (CHOOSE i \in 1..10 : DigitChars[i] = c) - 1

\* int(s) for a string of decimal digits
RECURSIVE StrToInt(_)
StrToInt(s) ==
    IF Len(s) = 0 THEN 0
    ELSE 10 * StrToInt(SubSeq(s, 1, Len(s) - 1)) + DigitVal(s[Len(s)])

\* str(n) for n >= 0
RECURSIVE IntToStr(_)
IntToStr(n) ==
    IF n < 10 THEN <<DigitChars[n + 1]>>
    ELSE IntToStr(n \div 10) \o <<DigitChars[(n % 10) + 1]>>

\* n formatted with at least `width` digits (zero padded)
RECURSIVE ZeroPad(_, _)
ZeroPad(s, width) == IF Len(s) >= width THEN s ELSE ZeroPad(<<"0">> \o s, width)

\* s[p..] starts with lit
StartsAt(s, p, lit) ==
    /\ p >= 1
    /\ p + Len(lit) - 1 <= Len(s)
    /\ \A i \in 1..Len(lit) : s[p + i - 1] = lit[i]

\* `lit in s`
Contains(s, lit) == \E p \in 1..Len(s) : StartsAt(s, p, lit)

\* index of the last character of the maximal run of digits starting at p
\* (p - 1 when s[p] is no digit)
RECURSIVE DigitRunEnd(_, _)
DigitRunEnd(s, p) ==
    IF p <= Len(s) /\ IsDigit(s[p]) THEN DigitRunEnd(s, p + 1) ELSE p - 1

\* \d{4}-\d{2}-\d{2} at position p
DateAt(s, p) ==
    /\ p >= 1
    /\ p + 9 <= Len(s)
    /\ \A i \in {0, 1, 2, 3, 5, 6, 8, 9} : IsDigit(s[p + i])
    /\ s[p + 4] = "-"
    /\ s[p + 7] = "-"

Abs(a) == IF a < 0 THEN -a ELSE a

RECURSIVE GCD(_, _)
GCD(a, b) == IF b = 0 THEN a ELSE GCD(b, a % b)

\* the rational n/d (d > 0) in lowest terms
Rat(n, d) ==
    LET g == GCD(Abs(n), d) IN <<n \div g, d \div g>>

\* a - b on rationals
RatSub(a, b) == Rat(a[1] * b[2] - b[1] * a[2], a[2] * b[2])

----------------------------------------------------------------------------
\* import_dataset.py

\* "_a", "_split", "train", "-" as character sequences
LitA == <<"_", "a">>
LitSplit == <<"_", "s", "p", "l", "i", "t">>
LitTrain == <<"t", "r", "a", "i", "n">>
LitPerf == <<"p", "e", "r", "f">>

IsLeap(y) == (y % 4 = 0) /\ ((y % 100 # 0) \/ (y % 400 = 0))

DaysInMonth(y, m) ==
    IF m = 2 THEN (IF IsLeap(y) THEN 29 ELSE 28)
    ELSE IF m \in {4, 6, 9, 11} THEN 30 ELSE 31

RECURSIVE DaysBeforeMonth(_, _)
DaysBeforeMonth(y, m) ==
    IF m <= 1 THEN 0 ELSE DaysBeforeMonth(y, m - 1) + DaysInMonth(y, m - 1)

\* datetime.strptime(date_str, "%Y-%m-%d") accepts the string
ValidDate(y, m, d) ==
    /\ y >= 1
    /\ m \in 1..12
    /\ d >= 1
    /\ d <= DaysInMonth(y, m)

\* date.toordinal(): days since 0001-01-01, that day being 1
ToOrdinal(y, m, d) ==
    (y - 1) * 365 + ((y - 1) \div 4) - ((y - 1) \div 100) + ((y - 1) \div 400)
        + DaysBeforeMonth(y, m) + d

\* the regex (\d{4}-\d{2}-\d{2})_a(\d+)_.*_split(\d+) matches s from position p
SortPatternAt(s, p) ==
    /\ DateAt(s, p)
    /\ StartsAt(s, p + 10, LitA)
    /\ DigitRunEnd(s, p + 12) >= p + 12
    /\ LET e == DigitRunEnd(s, p + 12) IN
        /\ e + 1 <= Len(s)
        /\ s[e + 1] = "_"
        /\ \E q \in (e + 2)..Len(s) :
              StartsAt(s, q, LitSplit) /\ DigitRunEnd(s, q + 6) >= q + 6

\* sort_key with the take number compared as text ("10" before "2")
sort_key_textual(s) ==
    IF \E p \in 1..Len(s) : SortPatternAt(s, p)
    THEN
        LET p == CHOOSE p0 \in 1..Len(s) :
                    /\ SortPatternAt(s, p0)
                    /\ \A p1 \in 1..(p0 - 1) : ~SortPatternAt(s, p1)
            e == DigitRunEnd(s, p + 12)
            q == CHOOSE q0 \in (e + 2)..Len(s) :
                    /\ StartsAt(s, q0, LitSplit) /\ DigitRunEnd(s, q0 + 6) >= q0 + 6
                    /\ \A q1 \in (q0 + 1)..Len(s) :
                          ~(StartsAt(s, q1, LitSplit) /\ DigitRunEnd(s, q1 + 6) >= q1 + 6)
            y == StrToInt(SubSeq(s, p, p + 3))
            m == StrToInt(SubSeq(s, p + 5, p + 6))
            d == StrToInt(SubSeq(s, p + 8, p + 9))
            n_str == SubSeq(s, p + 12, e)
            s_str == SubSeq(s, q + 6, DigitRunEnd(s, q + 6))
        IN  IF ValidDate(y, m, d)
            THEN [ok |-> TRUE,
                  key |-> <<ToOrdinal(y, m, d), DigitVal(n_str[1]), StrToInt(s_str)>>]
            ELSE [ok |-> FALSE, key |-> <<>>]
    ELSE [ok |-> FALSE, key |-> <<>>]

\* sort_key(s): re.search takes the leftmost match, .* is greedy (the last
\* "_split<digits>"), \d+ takes the whole run of digits.
sort_key(s) ==
    IF \E p \in 1..Len(s) : SortPatternAt(s, p)
    THEN
        LET p == CHOOSE p0 \in 1..Len(s) :
                    /\ SortPatternAt(s, p0)
                    /\ \A p1 \in 1..(p0 - 1) : ~SortPatternAt(s, p1)
            e == DigitRunEnd(s, p + 12)
            q == CHOOSE q0 \in (e + 2)..Len(s) :
                    /\ StartsAt(s, q0, LitSplit) /\ DigitRunEnd(s, q0 + 6) >= q0 + 6
                    /\ \A q1 \in (q0 + 1)..Len(s) :
                          ~(StartsAt(s, q1, LitSplit) /\ DigitRunEnd(s, q1 + 6) >= q1 + 6)
            y == StrToInt(SubSeq(s, p, p + 3))
            m == StrToInt(SubSeq(s, p + 5, p + 6))
            d == StrToInt(SubSeq(s, p + 8, p + 9))
            n_str == SubSeq(s, p + 12, e)
            s_str == SubSeq(s, q + 6, DigitRunEnd(s, q + 6))
        IN  IF ValidDate(y, m, d)
            THEN [ok |-> TRUE,
                  key |-> <<ToOrdinal(y, m, d), StrToInt(n_str), StrToInt(s_str)>>]
            ELSE [ok |-> FALSE, key |-> <<>>]     \* strptime raises ValueError
    ELSE [ok |-> FALSE, key |-> <<>>]             \* raise ValueError

\* Python's tuple comparison a < b on the 3-tuples sort_key returns
KeyLess(a, b) ==
    \/ a[1] < b[1]
    \/ a[1] = b[1] /\ a[2] < b[2]
    \/ a[1] = b[1] /\ a[2] = b[2] /\ a[3] < b[3]

\* sorted(items, key=...): the stable sort, given the keys of the items
Sorted(items, keys) ==
    LET Rank(i) == 1 + Cardinality({j \in 1..Len(items) :
                        \/ KeyLess(keys[j], keys[i])
                        \/ keys[j] = keys[i] /\ j < i})
    IN  [r \in 1..Len(items) |-> items[CHOOSE i \in 1..Len(items) : Rank(i) = r]]

\* the regex (\d{4}-\d{2}-\d{2}_a\d+) matches s from position p
SessionPatternAt(s, p) ==
    /\ DateAt(s, p)
    /\ StartsAt(s, p + 10, LitA)
    /\ DigitRunEnd(s, p + 12) >= p + 12

NoSession == <<"?">>

\* re.search(session_pattern, filepath).group(1), NoSession when there is no match
SessionOf(s) ==
    IF \E p \in 1..Len(s) : SessionPatternAt(s, p)
    THEN LET p == CHOOSE p0 \in 1..Len(s) :
                    /\ SessionPatternAt(s, p0)
                    /\ \A p1 \in 1..(p0 - 1) : ~SessionPatternAt(s, p1)
         IN  SubSeq(s, p, DigitRunEnd(s, p + 12))
    ELSE NoSession

\* ---- the files on disk and the bounding-box file ----

FormatDate(y, m, d) ==
    ZeroPad(IntToStr(y), 4) \o <<"-">> \o ZeroPad(IntToStr(m), 2) \o <<"-">>
        \o ZeroPad(IntToStr(d), 2)

\* the stem YYYY-MM-DD_a<N>_<mid>_split<M>
FormatStem(y, m, d, take, mid, split) ==
    FormatDate(y, m, d) \o LitA \o IntToStr(take) \o <<"_">> \o mid
        \o LitSplit \o IntToStr(split)

\* a video file: its stem, what the name was built from, and what
\* compute_metadata() reads from the container
Video(stem, valid, date, take, split, w, h, n) ==
    [stem |-> stem, valid |-> valid, date |-> date, take |-> take, split |-> split,
     frame_width |-> w, frame_height |-> h, total_frame_count |-> n]

GoodVideos ==
    { Video(FormatStem(2023, 5, 1, 2, LitPerf, 3), TRUE, <<2023, 5, 1>>, 2, 3, 640, 480, 2),
      Video(FormatStem(2023, 5, 1, 2, LitPerf, 10), TRUE, <<2023, 5, 1>>, 2, 10, 640, 480, 3),
      Video(FormatStem(2023, 5, 1, 10, LitTrain, 1), TRUE, <<2023, 5, 1>>, 10, 1, 480, 640, 1),
      Video(FormatStem(2022, 12, 31, 3, LitPerf, 1), TRUE, <<2022, 12, 31>>, 3, 1, 640, 480, 2),
      Video(FormatStem(2024, 3, 1, 1, LitTrain, 2), TRUE, <<2024, 3, 1>>, 1, 2, 640, 480, 1) }

BadVideos ==
    { \* nothing between the take and the split: 2023-05-01_a2_split3
      Video(FormatDate(2023, 5, 1) \o LitA \o <<"2">> \o LitSplit \o <<"3">>,
            FALSE, <<0, 0, 0>>, 0, 0, 640, 480, 2),
      \* no take: 2023-05-01_b2_perf_split3
      Video(FormatDate(2023, 5, 1) \o <<"_", "b", "2", "_">> \o LitPerf \o LitSplit \o <<"3">>,
            FALSE, <<0, 0, 0>>, 0, 0, 640, 480, 2),
      \* no such month: 2023-13-01_a1_perf_split1
      Video(FormatStem(2023, 13, 1, 1, LitPerf, 1), FALSE, <<0, 0, 0>>, 0, 0, 640, 480, 2) }

VideoPool == GoodVideos \cup BadVideos

Stems == {v.stem : v \in VideoPool}

\* the file with the given path
VideoFile(stem) == CHOOSE v \in VideoPool : v.stem = stem

\* one prediction of the bounding-box file
Pred(x1, y1, x2, y2, name, cls, conf) ==
    [box |-> [x1 |-> x1, y1 |-> y1, x2 |-> x2, y2 |-> y2],
     name |-> name, class |-> cls, confidence |-> conf]

BoxesA == << Pred(100, 50, 300, 250, "keyboard", 0, 90) >>

\* the whole frame; a box that is out of range and has negative extent
BoxesB == << Pred(0, 0, 640, 480, "keyboard", 0, 80),
             Pred(700, 400, 600, 500, "keys", 1, 50) >>

EntryPool ==
    { [session_id |-> FormatDate(2023, 5, 1) \o LitA \o <<"2">>, box |-> BoxesA],
      [session_id |-> FormatDate(2023, 5, 1) \o LitA \o <<"2">>, box |-> BoxesB],
      [session_id |-> FormatDate(2023, 5, 1) \o LitA \o <<"1", "0">>, box |-> BoxesA],
      [session_id |-> FormatDate(2022, 12, 31) \o LitA \o <<"3">>, box |-> BoxesB] }

SeqsUpTo(S, n) == UNION {[1..k -> S] : k \in 0..n}

\* ---- state of run_mediapipe.py / custom_export.py while the import runs ----
NoDoc == [filename |-> "none"]
NoCap == [fps |-> <<0, 1>>, decodable |-> 0]

MpIdle ==
    /\ nframes = [s \in 1..NumSamples |-> 0]
    /\ mem = <<>>
    /\ db = [s \in 1..NumSamples |-> <<>>]
    /\ pc = "idle"
    /\ cur = 0
    /\ fno = 0
    /\ cap = NoCap
    /\ capOpen = {}
    /\ lmOpen = {}
    /\ calls = <<>>
    /\ outcome = [s \in 1..NumSamples |-> "pending"]
    /\ docs = [s \in 1..NumSamples |-> NoDoc]
    /\ xerr = "none"

\* main(): the dataset does not exist yet; glob has found the files
InitImport ==
    /\ files \in {f \in SeqsUpTo(Stems, MaxFiles) :
                    \A i, j \in 1..Len(f) : i # j => f[i] # f[j]}
    /\ dataset = <<>>
    /\ keyboard_preds = <<>>
    /\ ipc = "start"
    /\ idx = 0
    /\ ierr = "none"
    /\ MpIdle

\* fo.Sample(filepath=video_fp) with its tag, and the metadata
\* ds.compute_metadata() fills in; sample.frames is empty
NewSample(video_fp) ==
    [filepath |-> video_fp,
     tags |-> <<IF Contains(video_fp, LitTrain) THEN "train" ELSE "test">>,
     metadata |-> [frame_width |-> VideoFile(video_fp).frame_width,
                   frame_height |-> VideoFile(video_fp).frame_height,
                   total_frame_count |-> VideoFile(video_fp).total_frame_count],
     session |-> NoSession,
     frames |-> <<>>]

\* create_dataset(): sorted() evaluates sort_key on every file; one ValueError
\* ends the call before fo.Dataset is created
create_dataset ==
    /\ ipc = "start"
    /\ LET keys == [i \in 1..Len(files) |-> sort_key(files[i])] IN
        IF \E i \in 1..Len(files) : ~keys[i].ok
        THEN /\ ierr' = "ValueError"
             /\ ipc' = "failed"
             /\ dataset' = dataset
        ELSE LET video_fps == Sorted(files, [i \in 1..Len(files) |-> keys[i].key]) IN
             /\ dataset' = [i \in 1..Len(files) |-> NewSample(video_fps[i])]
             /\ ipc' = "created"
             /\ ierr' = ierr
    /\ UNCHANGED <<files, keyboard_preds, idx>>
    /\ UNCHANGED mvars

\* add_session_field(): iter_samples(autosave=True) saves the samples set
\* before a ValueError
add_session_field ==
    /\ ipc = "created"
    /\ LET bad == {i \in 1..Len(dataset) : SessionOf(dataset[i].filepath) = NoSession}
           stop == IF bad = {} THEN Len(dataset) + 1
                   ELSE CHOOSE i \in bad : \A j \in bad : i <= j
       IN
        /\ dataset' = [i \in 1..Len(dataset) |->
                          IF i < stop
                          THEN [dataset[i] EXCEPT !.session = SessionOf(dataset[i].filepath)]
                          ELSE dataset[i]]
        /\ ipc' = IF bad = {} THEN "sessions" ELSE "failed"
        /\ ierr' = IF bad = {} THEN ierr ELSE "ValueError"
    /\ UNCHANGED <<files, keyboard_preds, idx>>
    /\ UNCHANGED mvars

\* add_keyboard_bboxes(), lines 96-97: the bounding-box file is read
load_keyboard_preds ==
    /\ ipc = "sessions"
    /\ \E p \in SeqsUpTo(EntryPool, MaxEntries) : keyboard_preds' = p
    /\ ipc' = "bboxes"
    /\ idx' = 0
    /\ UNCHANGED <<files, dataset, ierr>>
    /\ UNCHANGED mvars

\* [e["box"] for e in keyboard_preds if e["session_id"] == sample.session]
MatchingBoxes(kp, session) ==
    LET hit == SelectSeq(kp, LAMBDA e : e.session_id = session)
    IN  [i \in 1..Len(hit) |-> hit[i].box]

\* Detection with the y coordinates divided by the width
Detection_swapped(pred, width, height) ==
    LET x1 == Rat(pred.box.x1, width)
        y1 == Rat(pred.box.y1, width)
        x2 == Rat(pred.box.x2, width)
        y2 == Rat(pred.box.y2, width)
    IN  [label |-> pred.name,
         bounding_box |-> <<x1, y1, RatSub(x2, x1), RatSub(y2, y1)>>,
         confidence |-> pred.confidence,
         cls |-> pred.class]

\* lines 107-119: one pixel-space prediction as a fo.Detection
Detection(pred, width, height) ==
    LET x1 == Rat(pred.box.x1, width)
        y1 == Rat(pred.box.y1, height)
        x2 == Rat(pred.box.x2, width)
        y2 == Rat(pred.box.y2, height)
    IN  [label |-> pred.name,
         bounding_box |-> <<x1, y1, RatSub(x2, x1), RatSub(y2, y1)>>,
         confidence |-> pred.confidence,
         cls |-> pred.class]

\* FrameRange without the + 1: frames 0..n-1
FrameRange_zero_based(n) == {i : i \in 0..(n - 1)}

\* lines 121-123: the frame numbers written for a video of n frames
FrameRange(n) == {i + 1 : i \in 0..(n - 1)}

\* add_keyboard_bboxes without the assert: the first match is taken
add_keyboard_bboxes_first_match ==
    /\ ipc = "bboxes"
    /\ idx < Len(dataset)
    /\ LET sample == dataset[idx + 1]
           preds == MatchingBoxes(keyboard_preds, sample.session)
       IN
        /\ Len(preds) >= 1
        /\ LET height == sample.metadata.frame_height
               width == sample.metadata.frame_width
               detections == [k \in 1..Len(preds[1]) |->
                                 Detection(preds[1][k], width, height)]
               written == [f \in FrameRange(sample.metadata.total_frame_count)
                              |-> detections]
           IN  dataset' = [dataset EXCEPT ![idx + 1].frames = written]
    /\ idx' = idx + 1
    /\ UNCHANGED <<files, keyboard_preds, ipc, ierr>>
    /\ UNCHANGED mvars

\* add_keyboard_bboxes(), loop body for a sample with exactly one entry
add_keyboard_bboxes ==
    /\ ipc = "bboxes"
    /\ idx < Len(dataset)
    /\ LET sample == dataset[idx + 1]
           preds == MatchingBoxes(keyboard_preds, sample.session)
       IN
        /\ Len(preds) = 1
        /\ LET height == sample.metadata.frame_height
               width == sample.metadata.frame_width
               detections == [k \in 1..Len(preds[1]) |->
                                 Detection(preds[1][k], width, height)]
               written == [f \in FrameRange(sample.metadata.total_frame_count)
                              |-> detections]
           IN  dataset' = [dataset EXCEPT ![idx + 1].frames = written]
    /\ idx' = idx + 1
    /\ UNCHANGED <<files, keyboard_preds, ipc, ierr>>
    /\ UNCHANGED mvars

\* add_keyboard_bboxes(), line 102: the assert fails
add_keyboard_bboxes_assert ==
    /\ ipc = "bboxes"
    /\ idx < Len(dataset)
    /\ Len(MatchingBoxes(keyboard_preds, dataset[idx + 1].session)) # 1
    /\ ierr' = "AssertionError"
    /\ ipc' = "failed"
    /\ UNCHANGED <<files, dataset, keyboard_preds, idx>>
    /\ UNCHANGED mvars

\* add_keyboard_bboxes() has iterated every sample
import_done ==
    /\ ipc = "bboxes"
    /\ idx = Len(dataset)
    /\ ipc' = "done"
    /\ UNCHANGED <<files, dataset, keyboard_preds, idx, ierr>>
    /\ UNCHANGED mvars

NextImport ==
    \/ create_dataset
    \/ add_session_field
    \/ load_keyboard_preds
    \/ add_keyboard_bboxes
    \/ add_keyboard_bboxes_assert
    \/ import_done

SpecImport == InitImport /\ [][NextImport]_vars

----------------------------------------------------------------------------
\* Properties of import_dataset.py (specification SpecImport)

\* number of bounding-box entries whose session_id is the session of sample s
MatchCount(s) ==
    Cardinality({i \in 1..Len(keyboard_preds) :
                    keyboard_preds[i].session_id = dataset[s].session})

\* the entry matched to sample s, when there is exactly one
MatchedEntry(s) ==
    keyboard_preds[CHOOSE i \in 1..Len(keyboard_preds) :
                      keyboard_preds[i].session_id = dataset[s].session]

\* C1: a sample whose session has zero or several bounding-box entries is never
\* passed by add_keyboard_bboxes and never gets a keyboard box on any frame;
\* the step that reaches it ends the run with the AssertionError.
C1_NeverWritten ==
    \A s \in 1..Len(dataset) :
        MatchCount(s) # 1 =>
            /\ dataset[s].frames = <<>>
            /\ idx < s
            /\ ipc # "done"

C1_StepFails ==
    (ipc = "bboxes" /\ idx < Len(dataset) /\ MatchCount(idx + 1) # 1)
        => (ipc' = "failed" /\ ierr' = "AssertionError" /\ dataset' = dataset)

C1_ExactlyOneMatch == []C1_NeverWritten /\ [][C1_StepFails]_vars

\* the first sample was given its box, the second has two entries and failed
C1_Witness ==
    /\ ipc = "failed"
    /\ ierr = "AssertionError"
    /\ idx = 1
    /\ MatchCount(2) = 2
    /\ dataset[1].frames # <<>>
    /\ dataset[2].frames = <<>>

\* C5: after add_keyboard_bboxes has processed a sample, every frame record
\* 1..total_frame_count holds the same box list, the detections of the single
\* entry matched to the sample's session.
C5_SameBoxesOnEveryFrame ==
    \A s \in 1..Len(dataset) :
        (ipc \in {"bboxes", "done", "failed"} /\ s <= idx) =>
            /\ MatchCount(s) = 1
            /\ DOMAIN dataset[s].frames = 1..dataset[s].metadata.total_frame_count
            /\ \A f, g \in DOMAIN dataset[s].frames :
                  dataset[s].frames[f] = dataset[s].frames[g]
            /\ \A f \in 1..dataset[s].metadata.total_frame_count :
                  /\ Len(dataset[s].frames[f]) = Len(MatchedEntry(s).box)
                  /\ \A k \in 1..Len(MatchedEntry(s).box) :
                        dataset[s].frames[f][k] =
                            Detection(MatchedEntry(s).box[k],
                                      dataset[s].metadata.frame_width,
                                      dataset[s].metadata.frame_height)

\* two samples processed, one of them with three frames
C5_Witness ==
    /\ ipc = "done"
    /\ idx = 2
    /\ \E s \in 1..2 :
          /\ dataset[s].metadata.total_frame_count = 3
          /\ DOMAIN dataset[s].frames = {1, 2, 3}
          /\ dataset[s].frames[1] # <<>>

\* C6: the stored box of pixel box (x1,y1,x2,y2) in a frame of size
\* (width,height) is (x1/width, y1/height, (x2-x1)/width, (y2-y1)/height),
\* unclamped; the box (0,0,width,height) is stored as (0,0,1,1).
C6_Normalized ==
    \A s \in 1..Len(dataset) :
        \A f \in DOMAIN dataset[s].frames :
            \A k \in 1..Len(dataset[s].frames[f]) :
                LET b == MatchedEntry(s).box[k].box
                    w == dataset[s].metadata.frame_width
                    h == dataset[s].metadata.frame_height
                    stored == dataset[s].frames[f][k].bounding_box
                IN  /\ stored = <<Rat(b.x1, w), Rat(b.y1, h),
                                  Rat(b.x2 - b.x1, w), Rat(b.y2 - b.y1, h)>>
                    /\ (b.x1 = 0 /\ b.y1 = 0 /\ b.x2 = w /\ b.y2 = h)
                          => stored = <<<<0, 1>>, <<0, 1>>, <<1, 1>>, <<1, 1>>>>

\* a frame holds the whole-frame box as (0,0,1,1) and the out-of-range box
\* with its negative width
C6_Witness ==
    \E s \in 1..Len(dataset) :
        /\ 1 \in DOMAIN dataset[s].frames
        /\ Len(dataset[s].frames[1]) = 2
        /\ dataset[s].frames[1][1].bounding_box = <<<<0, 1>>, <<0, 1>>, <<1, 1>>, <<1, 1>>>>
        /\ dataset[s].frames[1][2].bounding_box[3][1] < 0
        /\ dataset[s].frames[1][2].bounding_box[1][1] > dataset[s].frames[1][2].bounding_box[1][2]

\* (date, take, split) of a before that of b, as numbers
ChronoLess(a, b) ==
    LET ka == <<a.date[1], a.date[2], a.date[3], a.take, a.split>>
        kb == <<b.date[1], b.date[2], b.date[3], b.take, b.split>>
    IN  \E i \in 1..5 : ka[i] < kb[i] /\ \A j \in 1..(i - 1) : ka[j] = kb[j]

\* C7: create_dataset orders well-formed file names by date, then take, then
\* split, all compared as numbers; with one malformed name among the files it
\* raises ValueError and creates no dataset.
C7_SortKeyOrder ==
    ipc # "start" =>
        IF \E i \in 1..Len(files) : ~VideoFile(files[i]).valid
        THEN ipc = "failed" /\ ierr = "ValueError" /\ dataset = <<>>
        ELSE /\ Len(dataset) = Len(files)
             /\ {dataset[i].filepath : i \in 1..Len(dataset)}
                   = {files[i] : i \in 1..Len(files)}
             /\ \A i, j \in 1..Len(dataset) :
                   i < j => ChronoLess(VideoFile(dataset[i].filepath),
                                       VideoFile(dataset[j].filepath))

\* three files were found in the order a10, a2 split10, a2 split3 and are
\* now in the order a2 split3, a2 split10, a10
C7_Witness ==
    /\ ipc = "created"
    /\ Len(dataset) = 3
    /\ VideoFile(files[1]).take = 10
    /\ VideoFile(files[2]).split = 10
    /\ VideoFile(files[3]).split = 3
    /\ dataset[1].filepath = files[3]
    /\ dataset[2].filepath = files[2]
    /\ dataset[3].filepath = files[1]

----------------------------------------------------------------------------
\* run_mediapipe.py

\* state of import_dataset.py once the import has run
ImportIdle ==
    /\ files = <<>>
    /\ dataset = <<>>
    /\ keyboard_preds = <<>>
    /\ ipc = "done"
    /\ idx = 0
    /\ ierr = "none"

\* cap.get(cv2.CAP_PROP_FPS) as a rational <<numerator, denominator>>;
\* 0 is what OpenCV reports for an unknown rate
FpsSet == {<<0, 1>>, <<30, 1>>, <<30000, 1001>>, <<1000, 1>>, <<2000, 1>>}

\* hand_landmarker_result for frame f of the video of sample s: a list of
\* hands, each with handedness and landmarks. The videos show a left hand
\* that moves on the odd frames and no hand on the even frames.
DetectorResult(s, f) ==
    IF f % 2 = 1
    THEN <<[handedness |-> "Left", landmarks |-> <<<<s, f>>>>]>>
    ELSE <<>>

\* a frame document without / with the keypoint field
Absent == [set |-> FALSE, keypoints |-> <<>>]
Keypoints(kps) == [set |-> TRUE, keypoints |-> kps]

\* the dataset as the import left it: frame records 1..total_frame_count for
\* every sample, none with the keypoint field
Init ==
    /\ nframes \in [1..NumSamples -> 0..MaxFrames]
    /\ db = [s \in 1..NumSamples |-> [f \in 1..nframes[s] |-> Absent]]
    /\ mem = <<>>
    /\ pc = "next"
    /\ cur = 0
    /\ fno = 0
    /\ cap = NoCap
    /\ capOpen = {}
    /\ lmOpen = {}
    /\ calls = <<>>
    /\ outcome = [s \in 1..NumSamples |-> "pending"]
    /\ docs = [s \in 1..NumSamples |-> NoDoc]
    /\ xerr = "none"
    /\ ImportIdle

\* int(1000 / fps * frame_number) with the quotient rounded to nearest (even)
frame_timestamp_ms_rounded(fps, frame_number) ==
    LET n == 1000 * fps[2] * frame_number
        q == n \div fps[1]
        r == n % fps[1]
    IN  IF 2 * r > fps[1] THEN q + 1
        ELSE IF 2 * r < fps[1] THEN q
        ELSE IF q % 2 = 0 THEN q ELSE q + 1

\* int(1000 / fps) without the frame number
frame_timestamp_ms_no_frame(fps, frame_number) == (1000 * fps[2]) \div fps[1]

\* line 147: int(1000 / fps * frame_number), fps # 0
frame_timestamp_ms(fps, frame_number) ==
    (1000 * fps[2] * frame_number) \div fps[1]

\* detect_hands(), lines 109-118: the result as a list of fo.Keypoint
detect_hands(result) ==
    [h \in 1..Len(result) |->
        [label |-> result[h].handedness, points |-> result[h].landmarks]]

\* lines 134-139: the next sample; cap is rebound, which drops the last
\* reference to the VideoCapture of the sample before (CPython releases it
\* then); a HandLandmarker is created and entered
open_video ==
    /\ pc = "next"
    /\ cur < NumSamples
    /\ \E fps \in FpsSet, decodable \in 0..MaxFrames :
          cap' = [fps |-> fps, decodable |-> decodable]
    /\ cur' = cur + 1
    /\ capOpen' = {cur + 1}
    /\ lmOpen' = lmOpen \cup {cur + 1}
    /\ mem' = db[cur + 1]
    /\ calls' = <<>>
    /\ fno' = 1
    /\ pc' = "frames"
    /\ UNCHANGED <<nframes, db, outcome, docs, xerr>>
    /\ UNCHANGED ivars

\* lines 143-150: cap.read() succeeds, the detector returns
process_frame ==
    /\ pc = "frames"
    /\ fno <= nframes[cur]
    /\ fno <= cap.decodable
    /\ cap.fps[1] # 0
    /\ LET frame_timestamp == frame_timestamp_ms(cap.fps, fno)
           keypoints == detect_hands(DetectorResult(cur, fno))
       IN  /\ calls' = Append(calls, [frame_number |-> fno,
                                      timestamp_ms |-> frame_timestamp,
                                      raised |-> FALSE,
                                      keypoints |-> keypoints])
           /\ mem' = [mem EXCEPT ![fno] = Keypoints(keypoints)]
    /\ fno' = fno + 1
    /\ UNCHANGED <<nframes, db, pc, cur, cap, capOpen, lmOpen, outcome, docs, xerr>>
    /\ UNCHANGED ivars

\* lines 143-149: cap.read() succeeds; 1000 / fps divides by zero, or the
\* detector raises. The with block closes the landmarker; sample.save() is
\* not reached and the exception leaves run_mp.
process_frame_raises ==
    /\ pc = "frames"
    /\ fno <= nframes[cur]
    /\ fno <= cap.decodable
    /\ IF cap.fps[1] = 0
       THEN /\ xerr' = "ZeroDivisionError"
            /\ calls' = calls
       ELSE /\ xerr' = "DetectorError"
            /\ calls' = Append(calls, [frame_number |-> fno,
                                       timestamp_ms |-> frame_timestamp_ms(cap.fps, fno),
                                       raised |-> TRUE,
                                       keypoints |-> <<>>])
    /\ lmOpen' = lmOpen \ {cur}
    /\ outcome' = [outcome EXCEPT ![cur] = "exception"]
    /\ pc' = "raised"
    /\ UNCHANGED <<nframes, mem, db, cur, fno, cap, capOpen, docs>>
    /\ UNCHANGED ivars

\* short_read without the save
short_read_no_save ==
    /\ pc = "frames"
    /\ fno <= nframes[cur]
    /\ fno > cap.decodable
    /\ lmOpen' = lmOpen \ {cur}
    /\ outcome' = [outcome EXCEPT ![cur] = "short_read"]
    /\ pc' = "next"
    /\ UNCHANGED <<nframes, mem, db, cur, fno, cap, capOpen, calls, docs, xerr>>
    /\ UNCHANGED ivars

\* lines 143-145, 151: cap.read() fails, break; sample.save(); the with block
\* closes the landmarker
short_read ==
    /\ pc = "frames"
    /\ fno <= nframes[cur]
    /\ fno > cap.decodable
    /\ db' = [db EXCEPT ![cur] = mem]
    /\ lmOpen' = lmOpen \ {cur}
    /\ outcome' = [outcome EXCEPT ![cur] = "short_read"]
    /\ pc' = "next"
    /\ UNCHANGED <<nframes, mem, cur, fno, cap, capOpen, calls, docs, xerr>>
    /\ UNCHANGED ivars

\* lines 140, 151: sample.frames is exhausted; sample.save(); the with block
\* closes the landmarker
complete_video ==
    /\ pc = "frames"
    /\ fno > nframes[cur]
    /\ db' = [db EXCEPT ![cur] = mem]
    /\ lmOpen' = lmOpen \ {cur}
    /\ outcome' = [outcome EXCEPT ![cur] = "complete"]
    /\ pc' = "next"
    /\ UNCHANGED <<nframes, mem, cur, fno, cap, capOpen, calls, docs, xerr>>
    /\ UNCHANGED ivars

\* line 134: the dataset is exhausted, run_mp returns; its local `cap` goes
\* out of scope, which drops the last VideoCapture
run_mp_returns ==
    /\ pc = "next"
    /\ cur = NumSamples
    /\ pc' = "mp_done"
    /\ capOpen' = {}
    /\ UNCHANGED <<nframes, mem, db, cur, fno, cap, lmOpen, calls, outcome, docs, xerr>>
    /\ UNCHANGED ivars

----------------------------------------------------------------------------
\* custom_export.py

\* line 33: export starts in a new process, after run_mp returned or raised
export_load ==
    /\ pc \in {"mp_done", "raised"}
    /\ pc' = "export"
    /\ cur' = 0
    /\ fno' = 0
    /\ mem' = <<>>
    /\ cap' = NoCap
    /\ capOpen' = {}
    /\ lmOpen' = {}
    /\ calls' = <<>>
    /\ xerr' = "none"
    /\ UNCHANGED <<nframes, db, outcome, docs>>
    /\ UNCHANGED ivars

\* lines 35-47: the document of a sample whose frames all have the field
Dump(s) ==
    [filename |-> s,
     frames |-> [i \in 1..Len(db[s]) |->
                    [frame_number |-> i,
                     keypoints |-> [k \in 1..Len(db[s][i].keypoints) |->
                                       [label |-> db[s][i].keypoints[k].label,
                                        points |-> db[s][i].keypoints[k].points]]]]]

\* lines 34-53: every frame of the sample has the field; the file is written
export_sample ==
    /\ pc = "export"
    /\ cur < NumSamples
    /\ \A f \in 1..Len(db[cur + 1]) : db[cur + 1][f].set
    /\ docs' = [docs EXCEPT ![cur + 1] = Dump(cur + 1)]
    /\ cur' = cur + 1
    /\ UNCHANGED <<nframes, mem, db, pc, fno, cap, capOpen, lmOpen, calls, outcome, xerr>>
    /\ UNCHANGED ivars

\* line 42: frame[field] is None on a frame without the field; None.keypoints
\* raises AttributeError and no file is written for the sample
export_sample_raises ==
    /\ pc = "export"
    /\ cur < NumSamples
    /\ \E f \in 1..Len(db[cur + 1]) : ~db[cur + 1][f].set
    /\ xerr' = "AttributeError"
    /\ pc' = "export_failed"
    /\ UNCHANGED <<nframes, mem, db, cur, fno, cap, capOpen, lmOpen, calls, outcome, docs>>
    /\ UNCHANGED ivars

\* line 34: the dataset is exhausted
export_returns ==
    /\ pc = "export"
    /\ cur = NumSamples
    /\ pc' = "exported"
    /\ UNCHANGED <<nframes, mem, db, cur, fno, cap, capOpen, lmOpen, calls, outcome,
                   docs, xerr>>
    /\ UNCHANGED ivars

Next ==
    \/ open_video
    \/ process_frame
    \/ process_frame_raises
    \/ short_read
    \/ complete_video
    \/ run_mp_returns
    \/ export_load
    \/ export_sample
    \/ export_sample_raises
    \/ export_returns

Spec == Init /\ [][Next]_vars

----------------------------------------------------------------------------
\* Properties of run_mediapipe.py and custom_export.py (specification Spec)

\* run_mp is running, has returned or has raised; export has not started
MpPhase == pc \in {"next", "frames", "raised", "mp_done"}

\* C2: after a short read at frame k (decoder fails although frame records
\* remain), frames k.. are without the keypoint field, frames 1..k-1 hold the
\* keypoints detected on them, nothing is raised and the loop goes on to the
\* next sample.
C2_ShortRead ==
    MpPhase =>
        /\ \A s \in 1..NumSamples :
              outcome[s] = "short_read" =>
                  \E k \in 1..nframes[s] :
                      /\ (s = cur) => (k = cap.decodable + 1)
                      /\ \A f \in k..nframes[s] : db[s][f] = Absent
                      /\ \A f \in 1..(k - 1) :
                            db[s][f] = Keypoints(detect_hands(DetectorResult(s, f)))
        /\ (cur >= 1 /\ outcome[cur] = "short_read") =>
              /\ xerr = "none"
              /\ pc \in {"next", "mp_done"}
              /\ Len(calls) = cap.decodable
              /\ \A f \in 1..Len(mem) : mem[f] = db[cur][f]
              /\ (cur < NumSamples) => ENABLED open_video

\* the first video was cut short at frame 3 of 3 and the second is streaming
C2_Witness ==
    /\ pc = "frames"
    /\ cur = 2
    /\ outcome[1] = "short_read"
    /\ nframes[1] = 3
    /\ db[1][1].set
    /\ db[1][2].set
    /\ ~db[1][3].set

\* C3 (as claimed): within one video the timestamps passed to the detector are
\* strictly increasing across consecutive processed frames.
C3_StrictlyIncreasing ==
    MpPhase =>
        \A j \in 1..(Len(calls) - 1) :
            calls[j + 1].timestamp_ms > calls[j].timestamp_ms

\* C3 (amended): for a frame rate of at most 1000 frames per second the
\* timestamps passed to the detector are strictly increasing.
C3_StrictlyIncreasingUpTo1000Fps ==
    (MpPhase /\ cap.fps[1] <= 1000 * cap.fps[2]) =>
        \A j \in 1..(Len(calls) - 1) :
            calls[j + 1].timestamp_ms > calls[j].timestamp_ms

\* three frames of a 1000 fps video have gone to the detector
C3_Witness ==
    /\ MpPhase
    /\ cap.fps = <<1000, 1>>
    /\ Len(calls) = 3
    /\ calls[3].timestamp_ms > calls[2].timestamp_ms

\* C8: whatever keypoints were written to frames of a video before run_mp
\* left it (completion, short read or exception) are persisted.
C8_PartialWritesPersisted ==
    (MpPhase /\ cur >= 1 /\ outcome[cur] # "pending") =>
        \A j \in 1..Len(calls) :
            ~calls[j].raised =>
                db[cur][calls[j].frame_number] = Keypoints(calls[j].keypoints)

\* C9: a video that run_mp has left holds neither a video source nor a
\* detector, and only the current video ever holds one.
C9_ReleasedOnExit ==
    MpPhase =>
        /\ \A s \in 1..NumSamples :
              outcome[s] # "pending" => (s \notin capOpen /\ s \notin lmOpen)
        /\ capOpen \subseteq {cur}
        /\ lmOpen \subseteq {cur}

\* C10 (as claimed): the timestamp of frame i is round(1000 / fps * i).
C10_RoundedTimestamp ==
    MpPhase =>
        \A j \in 1..Len(calls) :
            calls[j].timestamp_ms = frame_timestamp_ms_rounded(cap.fps, calls[j].frame_number)

\* C10 (amended): the timestamp of frame i is 1000 / fps * i truncated to an
\* integer: t <= 1000 * i / fps < t + 1.
C10_TruncatedTimestamp ==
    MpPhase =>
        \A j \in 1..Len(calls) :
            LET t == calls[j].timestamp_ms
                i == calls[j].frame_number
            IN  /\ i = j
                /\ t * cap.fps[1] <= 1000 * cap.fps[2] * i
                /\ 1000 * cap.fps[2] * i < (t + 1) * cap.fps[1]

\* frame 2 of a 30 fps video went to the detector with timestamp 66
C10_Witness ==
    /\ MpPhase
    /\ cap.fps = <<30, 1>>
    /\ Len(calls) >= 2
    /\ calls[2].timestamp_ms = 66

\* C4: export writes, for every sample it reaches, a document with one entry
\* per frame record, numbered 1, 2, ...; a frame without the keypoint field
\* gets an empty keypoints list and export does not fail.
C4_ExportEveryFrame ==
    \A s \in 1..NumSamples :
        (\/ pc \in {"export", "exported"} /\ s <= cur
         \/ pc = "export_failed" /\ s <= cur + 1) =>
            /\ xerr = "none"
            /\ docs[s] # NoDoc
            /\ Len(docs[s].frames) = nframes[s]
            /\ \A i \in 1..nframes[s] :
                  /\ docs[s].frames[i].frame_number = i
                  /\ ~db[s][i].set => docs[s].frames[i].keypoints = <<>>

====
